---- MODULE Spec2Model ----
(***************************************************************************)
(* Ride-hailing prototype backend (src/main.py, src/schemas.py): the ride  *)
(* lifecycle, driver matching, route progression and booth queue tickets,  *)
(* over a document store with one collection per record type.              *)
(*                                                                         *)
(* Identifiers: a document's _id is its position in its collection (the    *)
(* store's natural order is insertion order); 0 stands for "no id".        *)
(* Coordinates are integers in micro-degrees (six decimal places).         *)
(* Python's None for route_points is the empty sequence: the code tests    *)
(* `not points`, which does not tell None from [].                         *)
(***************************************************************************)
EXTENDS Integers, Sequences, FiniteSets, TLC

(* ------------------------------ bounds -------------------------------- *)
MaxRides == 2
MaxRouted == 1
MaxTickets == 1
MaxScheduled == 1
MaxConcRides == 1
NProcs == 2
MaxQueueTickets == 4
NQueueProcs == 3
MaxKm == 3
MaxMin == 3

(* ------------------------- program constants -------------------------- *)
Steps == 30
NoDriver == 0
Micro == 10

VehicleTypes == {"auto", "taxi"}

Statuses == {"requested", "driver_en_route", "arriving", "ongoing", "completed", "cancelled"}

Coord(lat, lng) == [lat |-> lat, lng |-> lng]

SeedDrivers ==
  << [name |-> "Ravi",   vehicle_type |-> "auto", available |-> TRUE],
     [name |-> "Sunita", vehicle_type |-> "taxi", available |-> TRUE],
     [name |-> "Imran",  vehicle_type |-> "auto", available |-> TRUE] >>

SeedBooths ==
  << [name |-> "MG Road Metro",      queue_count |-> 0],
     [name |-> "Majestic Bus Stand", queue_count |-> 0] >>

(* The requests a client sends: the scenario trip, its reverse by taxi, and *)
(* a request with a vehicle type outside the enumeration.                   *)
(* Coordinates are counted in units of 10^-7 degree, so that a request   *)
(* can carry a seventh decimal: the taxi trip starts at                  *)
(* (12.9750004, 77.5900006) and ends at (12.9716003, 77.5946007).        *)
RideRequests ==
  { [vehicle_type |-> "auto", pickup |-> Coord(129716000, 775946000), drop |-> Coord(129750000, 775900000)],
    [vehicle_type |-> "taxi", pickup |-> Coord(129750004, 775900006), drop |-> Coord(129716003, 775946007)],
    [vehicle_type |-> "bike", pickup |-> Coord(129716000, 775946000), drop |-> Coord(129750000, 775900000)] }

RideIdInputs == 1..MaxRides

(* FareReq: a vehicle type, whole kilometres and whole minutes *)
FareRequests ==
  { [vehicle_type |-> vt, distance_km |-> d, time_min |-> t] :
      vt \in {"auto", "taxi", "bike"}, d \in 0..MaxKm, t \in 0..MaxMin }

BoothIdInputs == 1..2

ScheduleRequests ==
  { [booth_id |-> 1, vehicle_type |-> "auto"] }

(* ------------------------------ helpers ------------------------------- *)

(* The fare tables, in thousandths of a rupee (12.0 is 12000, 1.5 is 1500) *)
PER_KM == [auto |-> 12000, taxi |-> 20000]

(* mutant: the per-minute rates as whole rupees *)
PER_MIN_Whole == [auto |-> 1000, taxi |-> 2000]

PER_MIN == [auto |-> 1500, taxi |-> 2000]

BASE_FARE == [auto |-> 20000, taxi |-> 40000]

(* round(x, 2) of an amount in thousandths: the nearest multiple of 10, *)
(* ties to the even multiple                                            *)
Round2(x) ==
  LET q == x \div 10
      rem == x - q * 10
  IN  IF 2 * rem < 10 \/ (2 * rem = 10 /\ q % 2 = 0)
        THEN 10 * q ELSE 10 * (q + 1)

(* calculate_fare: `if vt not in PER_KM` *)
ValidVehicleType(vt) == vt \in DOMAIN PER_KM

(* calculate_fare: total = round(base + dist_cost + time_cost, 2) *)
FareTotal(req) ==
  LET vt == req.vehicle_type
      base == BASE_FARE[vt]
      dist_cost == req.distance_km * PER_KM[vt]
      time_cost == req.time_min * PER_MIN[vt]
  IN  Round2(base + dist_cost + time_cost)

(* round(a*(1-t) + b*t, 6) for t = i/steps: the value a + (b-a)*i/steps *)
(* brought to the nearest multiple of Micro (10^-6 degree), ties to the  *)
(* even multiple. With a = Micro*qa + ra the value over Micro is         *)
(* qa + (ra*steps + (b-a)*i) / (Micro*steps), which keeps every product  *)
(* within 32 bits.                                                       *)
Lerp(a, b, i, steps) ==
  LET qa == a \div Micro
      m == (a - qa * Micro) * steps + (b - a) * i
      den == Micro * steps
      q == qa + (m \div den)
      rem == m - (m \div den) * den
  IN  IF 2 * rem < den THEN Micro * q
      ELSE IF 2 * rem > den THEN Micro * (q + 1)
      ELSE IF q % 2 = 0 THEN Micro * q ELSE Micro * (q + 1)

(* mutant: the loop over range(steps) *)
RoutePointsShort(p1, p2, steps) ==
  [k \in 1..steps |->
     Coord(Lerp(p1.lat, p2.lat, k - 1, steps), Lerp(p1.lng, p2.lng, k - 1, steps))]

(* the loop of simulate_route: steps + 1 points, t = i / steps *)
RoutePoints(p1, p2, steps) ==
  [k \in 1..(steps + 1) |->
     Coord(Lerp(p1.lat, p2.lat, k - 1, steps), Lerp(p1.lng, p2.lng, k - 1, steps))]

(* Ride(...).model_dump(): the defaults of the Ride schema *)
NewRide(req) ==
  [vehicle_type |-> req.vehicle_type,
   pickup |-> req.pickup,
   drop |-> req.drop,
   status |-> "requested",
   driver_id |-> NoDriver,
   driver_name |-> "",
   route_points |-> << >>,
   route_index |-> 0]

(* db["ride"].find_one({"_id": ...}) is not None *)
RideExists(rs, id) == id \in 1..Len(rs)

(* mutant: the filter without "available": True *)
FindAvailableDriverAny(ds, vt) ==
  LET c == {d \in 1..Len(ds) : ds[d].vehicle_type = vt}
  IN  IF c = {} THEN NoDriver ELSE CHOOSE d \in c : \A e \in c : d <= e

(* db["driver"].find_one({"vehicle_type": vt, "available": True}): the first *)
(* match in the store's natural order, NoDriver when there is none           *)
FindAvailableDriver(ds, vt) ==
  LET c == {d \in 1..Len(ds) : ds[d].vehicle_type = vt /\ ds[d].available}
  IN  IF c = {} THEN NoDriver ELSE CHOOSE d \in c : \A e \in c : d <= e

(* db["driver"].update_one({"_id": d}, {"$set": {"available": b}}): no     *)
(* document matches an unknown id and nothing is written                   *)
SetAvailable(ds, d, b) ==
  IF d \in 1..Len(ds) THEN [ds EXCEPT ![d].available = b] ELSE ds

(* the ride update of match_driver *)
MatchRideUpdate(rs, id, d, ddoc) ==
  [rs EXCEPT ![id].status = "driver_en_route",
             ![id].driver_id = d,
             ![id].driver_name = ddoc.name]

(* mutant: the status set back to requested along with the route *)
SimulateRideUpdateAndStatus(rs, id, rdoc) ==
  [rs EXCEPT ![id].route_points = RoutePoints(rdoc.pickup, rdoc.drop, Steps),
             ![id].route_index = 0,
             ![id].status = "requested"]

(* the ride update of simulate_route *)
SimulateRideUpdate(rs, id, rdoc) ==
  [rs EXCEPT ![id].route_points = RoutePoints(rdoc.pickup, rdoc.drop, Steps),
             ![id].route_index = 0]

(* mutant: the route check left out *)
HasRouteAlways(rdoc) == TRUE

(* progress_ride's decision on the ride document it read: `if not points` *)
HasRoute(rdoc) == rdoc.route_points # << >>

(* mutant: the bound one too far *)
CanAdvanceOffByOne(rdoc) == rdoc.route_index < Len(rdoc.route_points)

(* `if idx < len(points) - 1` *)
CanAdvance(rdoc) == rdoc.route_index < Len(rdoc.route_points) - 1

(* mutant: ongoing from the first step on *)
AdvanceStatusFromFirst(rdoc) ==
  IF rdoc.route_index + 1 >= 1 THEN "ongoing" ELSE rdoc.status

(* `status = "ongoing" if idx > 1 else r.get("status", ...)`, idx already *)
(* incremented                                                            *)
AdvanceStatus(rdoc) ==
  IF rdoc.route_index + 1 > 1 THEN "ongoing" ELSE rdoc.status

AdvanceRideUpdate(rs, id, rdoc) ==
  [rs EXCEPT ![id].route_index = rdoc.route_index + 1,
             ![id].status = AdvanceStatus(rdoc)]

CompleteRideUpdate(rs, id) == [rs EXCEPT ![id].status = "completed"]

(* mutant: every driver freed, not the ride's own *)
FreeAllDrivers(ds, rdoc) ==
  IF rdoc.driver_id # NoDriver THEN [d \in 1..Len(ds) |-> [ds[d] EXCEPT !.available = TRUE]] ELSE ds

(* mutant: the driver never freed *)
FreeNoDriver(ds, rdoc) == ds

(* the driver update of progress_ride's completion branch *)
FreeDriver(ds, rdoc) ==
  IF rdoc.driver_id # NoDriver THEN SetAvailable(ds, rdoc.driver_id, TRUE) ELSE ds

(* mutant: the counter written back as it was read *)
NextNumberSame(bdoc) == bdoc.queue_count

(* get_queue_number: next_no = int(booth.get("queue_count", 0)) + 1 *)
NextNumber(bdoc) == bdoc.queue_count + 1

(* db["booth"].update_one({"_id": b}, {"$set": {"queue_count": n}}) *)
SetQueueCount(bs, b, n) == [bs EXCEPT ![b].queue_count = n]

(* the ticket document of get_queue_number (issued_at and phone left out) *)
NewTicket(b, n) == [booth_id |-> b, number |-> n]

(* ------------------------------- state -------------------------------- *)
VARIABLES
  drivers,     \* the driver collection
  rides,       \* the ride collection
  booths,      \* the booth collection
  tickets,     \* the queueticket collection
  scheduled,   \* the scheduledride collection
  procs,       \* the requests in flight: position and the documents read
  last,        \* the call that returned last: operation, argument, response
  ticks        \* per ride: ProgressRide calls answered since its last SimulateRoute

vars == <<drivers, rides, booths, tickets, scheduled, procs, last, ticks>>

db == <<drivers, rides, booths, tickets, scheduled>>

(* the workers that serve requests side by side: NProcs of them take     *)
(* dispatch requests, NQueueProcs take booth requests                    *)
Workers == 1..(IF NProcs > NQueueProcs THEN NProcs ELSE NQueueProcs)

Idle == [pc |-> "idle", id |-> 0, r |-> << >>, d |-> NoDriver, n |-> 0]

Returned(op, id, result, d) ==
  [op |-> op, id |-> id, result |-> result, driver |-> d, n |-> 0, arg |-> << >>]

(* a response that carries a number: {"queue_number": n}, FareResp.total *)
ReturnedNumber(op, id, result, n, arg) ==
  [op |-> op, id |-> id, result |-> result, driver |-> NoDriver, n |-> n, arg |-> arg]

(* ticks counts up to TickCap and stays there *)
TickCap == Steps + 2

CountTick(t) == IF t < TickCap THEN t + 1 ELSE t

(* the rides that hold a route (at most MaxRouted rides are given one) *)
Routed(rs) == {i \in 1..Len(rs) : rs[i].route_points # << >>}

Init ==
  /\ drivers = << >>
  /\ rides = << >>
  /\ booths = << >>
  /\ tickets = << >>
  /\ scheduled = << >>
  /\ procs = [p \in Workers |-> Idle]
  /\ last = Returned("none", 0, "", NoDriver)
  /\ ticks = << >>

(* ------------------- handlers, each run to completion ------------------ *)

Seed ==
  /\ drivers' = IF Len(drivers) = 0 THEN SeedDrivers ELSE drivers
  /\ booths' = IF Len(booths) = 0 THEN SeedBooths ELSE booths
  /\ last' = Returned("seed", 0, "seeded", NoDriver)
  /\ UNCHANGED <<rides, tickets, scheduled, procs, ticks>>

(* request_ride: Ride(...) validates vehicle_type against the schema's     *)
(* Literal['auto', 'taxi'] (the pickup and drop are taken as accepted), the *)
(* document is inserted and its id returned                                 *)
RequestRide(req) ==
  /\ Len(rides) < MaxRides
  /\ IF req.vehicle_type \in VehicleTypes
       THEN /\ rides' = Append(rides, NewRide(req))
            /\ ticks' = Append(ticks, 0)
            /\ last' = Returned("request", Len(rides) + 1, "requested", NoDriver)
       ELSE /\ UNCHANGED <<rides, ticks>>
            /\ last' = Returned("request", 0, "ValidationError", NoDriver)
  /\ UNCHANGED <<drivers, booths, tickets, scheduled, procs>>

MatchDriver(id) ==
  /\ IF ~RideExists(rides, id)
       THEN /\ last' = Returned("match", id, "Ride not found", NoDriver)
            /\ UNCHANGED <<drivers, rides>>
       ELSE LET d == FindAvailableDriver(drivers, rides[id].vehicle_type)
            IN  IF d = NoDriver
                  THEN /\ last' = Returned("match", id, "No drivers available", NoDriver)
                       /\ UNCHANGED <<drivers, rides>>
                  ELSE /\ drivers' = SetAvailable(drivers, d, FALSE)
                       /\ rides' = MatchRideUpdate(rides, id, d, drivers[d])
                       /\ last' = Returned("match", id, "driver_en_route", d)
  /\ UNCHANGED <<booths, tickets, scheduled, procs, ticks>>

SimulateRoute(id) ==
  /\ IF ~RideExists(rides, id)
       THEN /\ last' = Returned("simulate", id, "Ride not found", NoDriver)
            /\ UNCHANGED <<rides, ticks>>
       ELSE /\ Cardinality(Routed(rides) \cup {id}) <= MaxRouted
            /\ rides' = SimulateRideUpdate(rides, id, rides[id])
            /\ ticks' = [ticks EXCEPT ![id] = 0]
            /\ last' = Returned("simulate", id, "points", NoDriver)
  /\ UNCHANGED <<drivers, booths, tickets, scheduled, procs>>

ProgressRide(id) ==
  /\ IF ~RideExists(rides, id)
       THEN /\ last' = Returned("progress", id, "Ride not found", NoDriver)
            /\ UNCHANGED <<drivers, rides, ticks>>
       ELSE IF ~HasRoute(rides[id])
       THEN /\ last' = Returned("progress", id, "No route to follow", NoDriver)
            /\ UNCHANGED <<drivers, rides, ticks>>
       ELSE IF CanAdvance(rides[id])
       THEN /\ rides' = AdvanceRideUpdate(rides, id, rides[id])
            /\ ticks' = [ticks EXCEPT ![id] = CountTick(@)]
            /\ last' = Returned("progress", id, AdvanceStatus(rides[id]), NoDriver)
            /\ UNCHANGED drivers
       ELSE /\ rides' = CompleteRideUpdate(rides, id)
            /\ drivers' = FreeDriver(drivers, rides[id])
            /\ ticks' = [ticks EXCEPT ![id] = CountTick(@)]
            /\ last' = Returned("progress", id, "completed", NoDriver)
  /\ UNCHANGED <<booths, tickets, scheduled, procs>>

CalculateFare(req) ==
  /\ IF ~ValidVehicleType(req.vehicle_type)
       THEN last' = ReturnedNumber("fare", 0, "Invalid vehicle type", 0,
                                   <<req.vehicle_type, req.distance_km, req.time_min>>)
       ELSE last' = ReturnedNumber("fare", 0, "total", FareTotal(req),
                                   <<req.vehicle_type, req.distance_km, req.time_min>>)
  /\ UNCHANGED <<db, procs, ticks>>

(* get_queue_number, while the store holds fewer than max tickets *)
IssueTicket(b, max) ==
  /\ IF b \notin 1..Len(booths)
       THEN /\ last' = Returned("queue", b, "Booth not found", NoDriver)
            /\ UNCHANGED <<booths, tickets>>
       ELSE /\ Len(tickets) < max
            /\ booths' = SetQueueCount(booths, b, NextNumber(booths[b]))
            /\ tickets' = Append(tickets, NewTicket(b, NextNumber(booths[b])))
            /\ last' = ReturnedNumber("queue", b, "queue_number", NextNumber(booths[b]), << >>)
  /\ UNCHANGED <<drivers, rides, scheduled, procs, ticks>>

GetQueueNumber(b) == IssueTicket(b, MaxTickets)

SchedulePickup(req) ==
  /\ Len(scheduled) < MaxScheduled
  /\ scheduled' = Append(scheduled, req)
  /\ last' = Returned("schedule", req.booth_id, "scheduled", NoDriver)
  /\ UNCHANGED <<drivers, rides, booths, tickets, procs, ticks>>

Next ==
  \/ Seed
  \/ \E req \in RideRequests : RequestRide(req)
  \/ \E id \in RideIdInputs : MatchDriver(id)
  \/ \E id \in RideIdInputs : SimulateRoute(id)
  \/ \E id \in RideIdInputs : ProgressRide(id)
  \/ \E b \in BoothIdInputs : GetQueueNumber(b)
  \/ \E req \in ScheduleRequests : SchedulePickup(req)

Spec == Init /\ [][Next]_vars

(* the handlers outside the dispatch engine, each run to completion, with *)
(* up to MaxQueueTickets tickets and fares of up to MaxKm km, MaxMin min  *)
BoothNext ==
  \/ Seed
  \/ \E req \in RideRequests : RequestRide(req)
  \/ \E b \in BoothIdInputs : IssueTicket(b, MaxQueueTickets)
  \/ \E req \in ScheduleRequests : SchedulePickup(req)
  \/ \E req \in FareRequests : CalculateFare(req)

BoothSpec == Init /\ [][BoothNext]_vars

(* ------------- handlers as interleaved store calls (ConcSpec) ---------- *)
(* Each request is served by a worker p; every call on the store is one    *)
(* step, and what a handler read stays in the worker's locals until it     *)
(* returns. Responses are not recorded here (last and ticks stand still).  *)

IdleAt(p) == procs[p].pc = "idle"

(* what each handler uses of the ride document it read *)
MatchView(rdoc) == [vehicle_type |-> rdoc.vehicle_type]

SimulateView(rdoc) == [pickup |-> rdoc.pickup, drop |-> rdoc.drop]

ProgressView(rdoc) ==
  [route_index |-> rdoc.route_index, route_points |-> rdoc.route_points,
   status |-> rdoc.status, driver_id |-> rdoc.driver_id]

Goto(p, pc, id, r, d) ==
  procs' = [procs EXCEPT ![p] = [pc |-> pc, id |-> id, r |-> r, d |-> d, n |-> 0]]

Return(p) == procs' = [procs EXCEPT ![p] = Idle]

(* match_driver: find_one ride *)
MatchFindRide(p, id) ==
  /\ IdleAt(p)
  /\ IF RideExists(rides, id)
       THEN Goto(p, "match_find_driver", id, MatchView(rides[id]), NoDriver)
       ELSE Return(p)
  /\ UNCHANGED <<db, last, ticks>>

(* match_driver: find_one driver *)
MatchFindDriver(p) ==
  /\ procs[p].pc = "match_find_driver"
  /\ LET d == FindAvailableDriver(drivers, procs[p].r.vehicle_type)
     IN  IF d = NoDriver
           THEN Return(p)
           ELSE Goto(p, "match_set_driver", procs[p].id, procs[p].r, d)
  /\ UNCHANGED <<db, last, ticks>>

(* mutant: the update made only while the driver is still available, the *)
(* request given up otherwise                                            *)
MatchSetDriverIfAvailable(p) ==
  /\ procs[p].pc = "match_set_driver"
  /\ IF drivers[procs[p].d].available
       THEN /\ drivers' = SetAvailable(drivers, procs[p].d, FALSE)
            /\ Goto(p, "match_set_ride", procs[p].id, procs[p].r, procs[p].d)
       ELSE /\ UNCHANGED drivers
            /\ Return(p)
  /\ UNCHANGED <<rides, booths, tickets, scheduled, last, ticks>>

(* match_driver: update_one driver *)
MatchSetDriver(p) ==
  /\ procs[p].pc = "match_set_driver"
  /\ drivers' = SetAvailable(drivers, procs[p].d, FALSE)
  /\ Goto(p, "match_set_ride", procs[p].id, procs[p].r, procs[p].d)
  /\ UNCHANGED <<rides, booths, tickets, scheduled, last, ticks>>

(* match_driver: update_one ride, and the response *)
MatchSetRide(p) ==
  /\ procs[p].pc = "match_set_ride"
  /\ rides' = MatchRideUpdate(rides, procs[p].id, procs[p].d, drivers[procs[p].d])
  /\ Return(p)
  /\ UNCHANGED <<drivers, booths, tickets, scheduled, last, ticks>>

(* simulate_route: find_one ride *)
SimulateFindRide(p, id) ==
  /\ IdleAt(p)
  /\ IF RideExists(rides, id)
       THEN /\ Cardinality(Routed(rides) \cup {id}) <= MaxRouted
            /\ Goto(p, "simulate_set_ride", id, SimulateView(rides[id]), NoDriver)
       ELSE Return(p)
  /\ UNCHANGED <<db, last, ticks>>

(* simulate_route: update_one ride, and the response *)
SimulateSetRide(p) ==
  /\ procs[p].pc = "simulate_set_ride"
  /\ rides' = SimulateRideUpdate(rides, procs[p].id, procs[p].r)
  /\ Return(p)
  /\ UNCHANGED <<drivers, booths, tickets, scheduled, last, ticks>>

(* progress_ride: find_one ride and the route check *)
ProgressFindRide(p, id) ==
  /\ IdleAt(p)
  /\ IF RideExists(rides, id) /\ HasRoute(rides[id])
       THEN Goto(p, "progress_set_ride", id, ProgressView(rides[id]), NoDriver)
       ELSE Return(p)
  /\ UNCHANGED <<db, last, ticks>>

(* progress_ride: update_one ride of either branch *)
ProgressSetRide(p) ==
  /\ procs[p].pc = "progress_set_ride"
  /\ IF CanAdvance(procs[p].r)
       THEN /\ rides' = AdvanceRideUpdate(rides, procs[p].id, procs[p].r)
            /\ Return(p)
       ELSE /\ rides' = CompleteRideUpdate(rides, procs[p].id)
            /\ IF procs[p].r.driver_id # NoDriver
                 THEN Goto(p, "progress_free_driver", procs[p].id, procs[p].r, NoDriver)
                 ELSE Return(p)
  /\ UNCHANGED <<drivers, booths, tickets, scheduled, last, ticks>>

(* progress_ride: update_one driver, and the response *)
ProgressFreeDriver(p) ==
  /\ procs[p].pc = "progress_free_driver"
  /\ drivers' = FreeDriver(drivers, procs[p].r)
  /\ Return(p)
  /\ UNCHANGED <<rides, booths, tickets, scheduled, last, ticks>>

SeedConc ==
  /\ drivers' = IF Len(drivers) = 0 THEN SeedDrivers ELSE drivers
  /\ booths' = IF Len(booths) = 0 THEN SeedBooths ELSE booths
  /\ UNCHANGED <<rides, tickets, scheduled, procs, last, ticks>>

RequestRideConc(req, max) ==
  /\ Len(rides) < max
  /\ req.vehicle_type \in VehicleTypes
  /\ rides' = Append(rides, NewRide(req))
  /\ UNCHANGED <<drivers, booths, tickets, scheduled, procs, last, ticks>>

(* the three dispatch handlers of NProcs workers, interleaved, on the rides *)
(* of MaxConcRides requests                                                 *)
ConcNext ==
  \/ SeedConc
  \/ \E req \in RideRequests : RequestRideConc(req, MaxConcRides)
  \/ \E p \in 1..NProcs, id \in RideIdInputs : MatchFindRide(p, id)
  \/ \E p \in 1..NProcs : MatchFindDriver(p)
  \/ \E p \in 1..NProcs : MatchSetDriver(p)
  \/ \E p \in 1..NProcs : MatchSetRide(p)
  \/ \E p \in 1..NProcs, id \in RideIdInputs : SimulateFindRide(p, id)
  \/ \E p \in 1..NProcs : SimulateSetRide(p)
  \/ \E p \in 1..NProcs, id \in RideIdInputs : ProgressFindRide(p, id)
  \/ \E p \in 1..NProcs : ProgressSetRide(p)
  \/ \E p \in 1..NProcs : ProgressFreeDriver(p)

ConcSpec == Init /\ [][ConcNext]_vars

(* match_driver of NProcs workers, interleaved, on the rides of MaxRides *)
(* requests                                                              *)
RaceNext ==
  \/ SeedConc
  \/ \E req \in RideRequests : RequestRideConc(req, MaxRides)
  \/ \E p \in 1..NProcs, id \in RideIdInputs : MatchFindRide(p, id)
  \/ \E p \in 1..NProcs : MatchFindDriver(p)
  \/ \E p \in 1..NProcs : MatchSetDriver(p)
  \/ \E p \in 1..NProcs : MatchSetRide(p)

RaceSpec == Init /\ [][RaceNext]_vars

(* get_queue_number as its three store calls *)

InQueueCall(p) == procs[p].pc \in {"queue_set_count", "queue_insert_ticket"}

GotoQueue(p, pc, b, n) ==
  procs' = [procs EXCEPT ![p] = [pc |-> pc, id |-> b, r |-> << >>, d |-> NoDriver, n |-> n]]

(* get_queue_number: find_one booth, and next_no from what was read *)
QueueFindBooth(p, b) ==
  /\ IdleAt(p)
  /\ IF b \notin 1..Len(booths)
       THEN Return(p)
       ELSE /\ Len(tickets) + Cardinality({q \in Workers : InQueueCall(q)}) < MaxQueueTickets
            /\ GotoQueue(p, "queue_set_count", b, NextNumber(booths[b]))
  /\ UNCHANGED <<db, last, ticks>>

(* mutant: the counter incremented in the store ($inc), the number taken *)
(* from the updated document                                             *)
QueueSetCountInc(p) ==
  /\ procs[p].pc = "queue_set_count"
  /\ booths' = SetQueueCount(booths, procs[p].id, booths[procs[p].id].queue_count + 1)
  /\ GotoQueue(p, "queue_insert_ticket", procs[p].id, booths[procs[p].id].queue_count + 1)
  /\ UNCHANGED <<drivers, rides, tickets, scheduled, last, ticks>>

(* get_queue_number: update_one booth with $set queue_count = next_no *)
QueueSetCount(p) ==
  /\ procs[p].pc = "queue_set_count"
  /\ booths' = SetQueueCount(booths, procs[p].id, procs[p].n)
  /\ GotoQueue(p, "queue_insert_ticket", procs[p].id, procs[p].n)
  /\ UNCHANGED <<drivers, rides, tickets, scheduled, last, ticks>>

(* get_queue_number: insert the ticket, and the response *)
QueueInsertTicket(p) ==
  /\ procs[p].pc = "queue_insert_ticket"
  /\ tickets' = Append(tickets, NewTicket(procs[p].id, procs[p].n))
  /\ Return(p)
  /\ UNCHANGED <<drivers, rides, booths, scheduled, last, ticks>>

(* get_queue_number of NQueueProcs workers, interleaved *)
QueueNext ==
  \/ SeedConc
  \/ \E p \in 1..NQueueProcs, b \in BoothIdInputs : QueueFindBooth(p, b)
  \/ \E p \in 1..NQueueProcs : QueueSetCount(p)
  \/ \E p \in 1..NQueueProcs : QueueInsertTicket(p)

QueueSpec == Init /\ [][QueueNext]_vars

(* ------------------------------- claims -------------------------------- *)

TerminalStatuses == {"completed", "cancelled"}

Answered(l) == l.result \notin {"Ride not found", "No route to follow"}

LastIndex(rdoc) == Len(rdoc.route_points) - 1

(* C1: once a ride's stored status is completed or cancelled, no step of  *)
(* MatchDriver, SimulateRoute or ProgressRide changes any field of it.    *)
C1_TerminalRidesFrozen ==
  [][\A id \in 1..Len(rides) :
       rides[id].status \in TerminalStatuses => rides'[id] = rides[id]]_vars

ChainSteps ==
  { <<"requested", "driver_en_route">>, <<"driver_en_route", "ongoing">>,
    <<"ongoing", "completed">> }
  \cup { <<s, "cancelled">> : s \in Statuses \ TerminalStatuses }

(* C2: every change of a ride's stored status is one step of the chain    *)
(* requested -> driver_en_route -> ongoing -> completed, or a step to     *)
(* cancelled from a non-terminal status.                                  *)
C2_StatusFollowsChain ==
  [][\A id \in 1..Len(rides) :
       rides'[id].status # rides[id].status =>
         <<rides[id].status, rides'[id].status>> \in ChainSteps]_vars

(* C3: a MatchDriver call that answers driver_en_route chose a driver of  *)
(* the ride's vehicle type that was available when the call was made;     *)
(* after the call that driver is unavailable, and the ride is             *)
(* driver_en_route and carries the driver's id.                           *)
C3_MatchReservesAvailableDriver ==
  [][(last'.op = "match" /\ last'.result = "driver_en_route") =>
       LET id == last'.id
           d == last'.driver
       IN  /\ d \in 1..Len(drivers)
           /\ drivers[d].available
           /\ drivers[d].vehicle_type = rides[id].vehicle_type
           /\ ~drivers'[d].available
           /\ rides'[id].status = "driver_en_route"
           /\ rides'[id].driver_id = d]_vars

(* a second ride of the same type was matched while the driver of the     *)
(* first was unavailable, and got another driver                          *)
C3_Witness ==
  /\ last.op = "match" /\ last.result = "driver_en_route"
  /\ \E b \in 1..Len(rides) :
       /\ b # last.id
       /\ rides[b].vehicle_type = rides[last.id].vehicle_type
       /\ rides[b].status = "driver_en_route"
       /\ rides[b].driver_id \notin {NoDriver, last.driver}
       /\ ~drivers[rides[b].driver_id].available
       /\ ~drivers[last.driver].available

(* C4: a worker of match_driver that has read an available driver writes  *)
(* that driver into its ride whatever the other workers did in between:   *)
(* neither update re-checks `available`. (Its witness is the double       *)
(* booking this allows.)                                                  *)
C4_MatchWritesTheDriverItRead ==
  [][\A p \in 1..NProcs :
       /\ (procs[p].pc = "match_set_driver" /\ procs'[p] # procs[p]) =>
            /\ procs'[p].pc = "match_set_ride"
            /\ procs'[p].d = procs[p].d
            /\ ~drivers'[procs[p].d].available
       /\ (procs[p].pc = "match_set_ride" /\ procs'[p] # procs[p]) =>
            /\ rides'[procs[p].id].status = "driver_en_route"
            /\ rides'[procs[p].id].driver_id = procs[p].d]_vars

(* two different rides of one vehicle type, both driver_en_route with the *)
(* same driver                                                            *)
C4_DoubleBooked ==
  \E a, b \in 1..Len(rides) :
    /\ a # b
    /\ rides[a].vehicle_type = rides[b].vehicle_type
    /\ rides[a].status = "driver_en_route"
    /\ rides[b].status = "driver_en_route"
    /\ rides[a].driver_id # NoDriver
    /\ rides[a].driver_id = rides[b].driver_id

InScenario(id) ==
  /\ rides[id].vehicle_type = "auto"
  /\ rides[id].pickup = Coord(129716000, 775946000)
  /\ rides[id].drop = Coord(129750000, 775900000)
  /\ rides[id].driver_id # NoDriver
  /\ HasRoute(rides[id])

AfterCalls(id, n) ==
  /\ last.op = "progress" /\ last.id = id /\ Answered(last)
  /\ ticks[id] = n

C7_RouteIndexInRange ==
  \A id \in 1..Len(rides) :
    HasRoute(rides[id]) =>
      (0 <= rides[id].route_index /\ rides[id].route_index <= Len(rides[id].route_points) - 1)

(* a SimulateRoute and a ProgressRide are in flight on a ride that stands *)
(* at its last route index                                                *)
C7_Witness ==
  \E p, q \in 1..NProcs :
    /\ procs[p].pc = "simulate_set_ride"
    /\ procs[q].pc = "progress_set_ride"
    /\ procs[p].id = procs[q].id
    /\ rides[procs[p].id].route_index = Len(rides[procs[p].id].route_points) - 1

(* C8: a driver's available goes from false to true only in a            *)
(* ProgressRide call on a ride that carries the driver's id and whose    *)
(* route_index already equals its last route index.                      *)
C8_OnlyFinalProgressFrees ==
  [][\A d \in 1..Len(drivers) :
       (~drivers[d].available /\ drivers'[d].available) =>
         /\ last'.op = "progress"
         /\ RideExists(rides, last'.id)
         /\ rides[last'.id].driver_id = d
         /\ rides[last'.id].route_points # << >>
         /\ rides[last'.id].route_index = LastIndex(rides[last'.id])]_vars

(* a final ProgressRide has freed its ride's driver while another ride's *)
(* driver stays unavailable                                              *)
C8_Witness ==
  /\ last.op = "progress" /\ last.result = "completed"
  /\ rides[last.id].driver_id # NoDriver
  /\ drivers[rides[last.id].driver_id].available
  /\ \E b \in 1..Len(rides) :
       /\ b # last.id
       /\ rides[b].status = "driver_en_route"
       /\ rides[b].driver_id \notin {NoDriver, rides[last.id].driver_id}
       /\ ~drivers[rides[b].driver_id].available

(* C9: MatchDriver on an existing ride whose vehicle type has no driver  *)
(* with available = true answers "No drivers available" and changes no   *)
(* driver and no ride.                                                   *)
C9_NoDriversLeavesAllUnchanged ==
  [][(/\ last'.op = "match"
      /\ RideExists(rides, last'.id)
      /\ \A d \in 1..Len(drivers) :
           ~(drivers[d].vehicle_type = rides[last'.id].vehicle_type /\ drivers[d].available)) =>
       /\ last'.result = "No drivers available"
       /\ drivers' = drivers
       /\ rides' = rides]_vars

(* the call failed although drivers of the ride's type exist: all busy *)
C9_Witness ==
  /\ last.op = "match" /\ last.result = "No drivers available"
  /\ RideExists(rides, last.id)
  /\ \E d \in 1..Len(drivers) : drivers[d].vehicle_type = rides[last.id].vehicle_type
  /\ \A d \in 1..Len(drivers) :
       drivers[d].vehicle_type = rides[last.id].vehicle_type => ~drivers[d].available

(* C10: ProgressRide on an existing ride without route_points answers    *)
(* "No route to follow" and changes no ride and no driver.               *)
C10_NoRouteLeavesAllUnchanged ==
  [][(/\ last'.op = "progress"
      /\ RideExists(rides, last'.id)
      /\ rides[last'.id].route_points = << >>) =>
       /\ last'.result = "No route to follow"
       /\ rides' = rides
       /\ drivers' = drivers]_vars

(* the call failed on a matched ride that was never simulated *)
C10_Witness ==
  /\ last.op = "progress" /\ last.result = "No route to follow"
  /\ RideExists(rides, last.id)
  /\ rides[last.id].status = "driver_en_route"
  /\ rides[last.id].route_points = << >>
  /\ ~drivers[rides[last.id].driver_id].available

(* the tickets of booth b, in the order of their insertion *)
TicketsOf(b) ==
  LET AtBooth(t) == t.booth_id = b
  IN  SelectSeq(tickets, AtBooth)

(* C11: with calls run one after the other on booths seeded with          *)
(* queue_count 0, the N-th call on a booth answers N, the booth's tickets  *)
(* carry the numbers 1..N in the order of the calls, and the stored       *)
(* queue_count is N.                                                      *)
C11_TicketsNumberedInOrder ==
  /\ \A b \in 1..Len(booths) :
       /\ booths[b].queue_count = Len(TicketsOf(b))
       /\ \A i \in 1..Len(TicketsOf(b)) : TicketsOf(b)[i].number = i
  /\ (last.op = "queue" /\ last.result = "queue_number") =>
       /\ last.n = Len(TicketsOf(last.id))
       /\ last.n = booths[last.id].queue_count

(* the third call on a booth has just answered 3 *)
C11_Witness ==
  /\ last.op = "queue" /\ last.result = "queue_number" /\ last.n = 3
  /\ booths[last.id].queue_count = 3
  /\ Len(TicketsOf(last.id)) = 3
  /\ TicketsOf(last.id)[1].number = 1
  /\ TicketsOf(last.id)[3].number = 3

(* C12: no step lowers a booth's queue_count, also when three workers'   *)
(* get_queue_number calls interleave as a read followed by a write.      *)
C12_QueueCountNeverDecreases ==
  [][\A b \in 1..Len(booths) :
       booths'[b].queue_count >= booths[b].queue_count]_vars

(* C13: a worker of get_queue_number writes the number it computed from  *)
(* its own read, into the booth and into its ticket, whatever the other  *)
(* workers wrote in between. (Its witness is the duplicate number this   *)
(* allows to two concurrent calls.)                                      *)
C13_WritesNumberItRead ==
  [][\A p \in 1..NQueueProcs :
       /\ (IdleAt(p) /\ procs'[p] # procs[p]) =>
            procs'[p].n = booths[procs'[p].id].queue_count + 1
       /\ (procs[p].pc = "queue_set_count" /\ procs'[p] # procs[p]) =>
            /\ procs'[p].pc = "queue_insert_ticket"
            /\ procs'[p].n = procs[p].n
            /\ booths'[procs[p].id].queue_count = procs[p].n
       /\ (procs[p].pc = "queue_insert_ticket" /\ procs'[p] # procs[p]) =>
            /\ Len(tickets') = Len(tickets) + 1
            /\ tickets'[Len(tickets')] = [booth_id |-> procs[p].id, number |-> procs[p].n]]_vars

(* exactly two calls have run, both are over, and their two tickets of   *)
(* one booth carry the same number                                       *)
C13_DuplicateNumbers ==
  /\ \A p \in Workers : IdleAt(p)
  /\ Len(tickets) = 2
  /\ tickets[1].booth_id = tickets[2].booth_id
  /\ tickets[1].number = tickets[2].number

(* C14: every RequestRide call, whatever its vehicle type, succeeds,     *)
(* stores exactly one new ride with status requested and answers with    *)
(* that ride's id.                                                       *)
C14_AnyVehicleTypeAccepted ==
  [][last'.op = "request" =>
       /\ last'.result = "requested"
       /\ Len(rides') = Len(rides) + 1
       /\ last'.id = Len(rides')
       /\ rides'[Len(rides')].status = "requested"
       /\ \A i \in 1..Len(rides) : rides'[i] = rides[i]]_vars

(* x rounded to 6 decimals: the nearest multiple of Micro, ties to even *)
Round6(x) ==
  LET q == x \div Micro
      rem == x - q * Micro
  IN  IF 2 * rem < Micro \/ (2 * rem = Micro /\ q % 2 = 0)
        THEN Micro * q ELSE Micro * (q + 1)

Round6Coord(c) == Coord(Round6(c.lat), Round6(c.lng))

SimulateAnswered == last'.op = "simulate" /\ last'.result = "points"

C16_FareTotal ==
  [][last'.op = "fare" =>
       LET vt == last'.arg[1]
           d == last'.arg[2]
           t == last'.arg[3]
       IN  /\ (last'.result = "Invalid vehicle type") <=> (vt \notin {"auto", "taxi"})
           /\ vt = "auto" => last'.n = 20000 + d * 12000 + t * 1500
           /\ vt = "taxi" => last'.n = 40000 + d * 20000 + t * 2000
           /\ drivers' = drivers /\ rides' = rides /\ booths' = booths
           /\ tickets' = tickets /\ scheduled' = scheduled]_vars

(* an auto fare for 2 km and 3 min has been answered with 48.50 while    *)
(* drivers, a ride and a ticket are stored                               *)
C16_Witness ==
  /\ last.op = "fare" /\ last.result = "total"
  /\ last.arg = <<"auto", 2, 3>>
  /\ last.n = 48500
  /\ Len(drivers) > 0 /\ Len(rides) > 0 /\ Len(tickets) > 0

(* C17: a ProgressRide call on a ride whose route_index is below the     *)
(* last index of its route stores route_index + 1 and answers with the   *)
(* status it stores: ongoing when the new index is above 1, the status   *)
(* the ride had before the call when the new index is 1.                 *)
C17_AdvanceReturnsStoredStatus ==
  [][(/\ last'.op = "progress"
      /\ RideExists(rides, last'.id)
      /\ rides[last'.id].route_points # << >>
      /\ rides[last'.id].route_index < LastIndex(rides[last'.id])) =>
       LET id == last'.id
       IN  /\ rides'[id].route_index = rides[id].route_index + 1
           /\ last'.result = rides'[id].status
           /\ rides'[id].route_index > 1 => rides'[id].status = "ongoing"
           /\ rides'[id].route_index = 1 => rides'[id].status = rides[id].status]_vars

(* the first step of a matched ride has been answered driver_en_route *)
C17_Witness ==
  /\ last.op = "progress" /\ last.result = "driver_en_route"
  /\ rides[last.id].route_index = 1
  /\ rides[last.id].status = "driver_en_route"
  /\ ticks[last.id] = 1

ActiveStatuses == {"driver_en_route", "ongoing"}

(* the rides that carry driver d while en route or ongoing *)
ActiveRidesOf(d) ==
  {r \in 1..Len(rides) : rides[r].driver_id = d /\ rides[r].status \in ActiveStatuses}

(* C18: with handlers run one after the other, no driver is carried by   *)
(* two rides that are both driver_en_route or ongoing, and no available  *)
(* driver is carried by such a ride.                                     *)
C18_NoDoubleBooking ==
  \A d \in 1..Len(drivers) :
    /\ Cardinality(ActiveRidesOf(d)) <= 1
    /\ drivers[d].available => ActiveRidesOf(d) = {}

(* C19: with handlers run one after the other, every unavailable driver  *)
(* is carried by some ride that is driver_en_route or ongoing.           *)
C19_NoDriverLeaked ==
  \A d \in 1..Len(drivers) :
    ~drivers[d].available => ActiveRidesOf(d) # {}

(* the driver records a step changes *)
ChangedDrivers == {d \in 1..Len(drivers) : drivers'[d] # drivers[d]}

(* C20: MatchDriver, SimulateRoute and ProgressRide on ride r leave      *)
(* every other ride, every booth and every ticket as they were and       *)
(* change at most one driver record; SimulateRoute changes nothing but   *)
(* r's route_points and route_index; get_queue_number on booth b leaves  *)
(* every other booth, every ride and every driver as they were.          *)
C20_OnlyNamedRecordsChange ==
  [][/\ last'.op \in {"match", "simulate", "progress"} =>
          /\ Len(rides') = Len(rides)
          /\ \A r \in 1..Len(rides) : r # last'.id => rides'[r] = rides[r]
          /\ booths' = booths
          /\ tickets' = tickets
          /\ Len(drivers') = Len(drivers)
          /\ Cardinality(ChangedDrivers) <= 1
     /\ (last'.op = "simulate" /\ RideExists(rides, last'.id)) =>
          /\ drivers' = drivers
          /\ rides' = [rides EXCEPT ![last'.id].route_points = rides'[last'.id].route_points,
                                    ![last'.id].route_index = rides'[last'.id].route_index]
     /\ last'.op = "queue" =>
          /\ Len(booths') = Len(booths)
          /\ \A b \in 1..Len(booths) : b # last'.id => booths'[b] = booths[b]
          /\ rides' = rides
          /\ drivers' = drivers]_vars

(* a ride that had moved along its route while matched has been given a *)
(* new route, while another ride is en route with another driver and a   *)
(* ticket has been issued                                                *)
C20_Witness ==
  /\ last.op = "simulate" /\ last.result = "points"
  /\ rides[last.id].status = "ongoing"
  /\ rides[last.id].driver_id # NoDriver
  /\ rides[last.id].route_index = 0
  /\ \E r \in 1..Len(rides) :
       /\ r # last.id
       /\ rides[r].status = "driver_en_route"
       /\ rides[r].driver_id # rides[last.id].driver_id
  /\ Len(tickets) > 0

====
